---- MODULE Spec2Model ----
(***************************************************************************)
(* A model of poker-odds-engine: the card model (internal/card), the hand  *)
(* evaluator (internal/evaluator) and the Monte Carlo simulator            *)
(* (internal/simulator).                                                   *)
(***************************************************************************)
EXTENDS Integers, Sequences, FiniteSets, TLC

VARIABLES
    pc,         \* evaluator: "call" before the function is applied, "return" after
    cards,      \* evaluator: the cards handed to the evaluator
    result,     \* evaluator: the *HandResult returned (NoResult is nil)
    ha, hb, hc, \* Compare: three hand results
    cmp,        \* Compare: the outcomes of comparing them pairwise
    holeCards,  \* simulator: the holeCards slice (its 2 cards and its capacity)
    holeArr,    \* simulator: the backing array of holeCards, spare capacity included
    boardCards, \* simulator: the 0 to 5 known board cards
    numOpponents,
    simulations,
    workers,
    mainPc,     \* CalculateOdds: "launch", "spawn", "range" or "done"
    launched,   \* CalculateOdds: the launch loop's i
    wg,         \* the sync.WaitGroup's counter
    results,    \* the buffer of the results channel
    closed,     \* whether the results channel is closed
    closerPc,   \* the closing goroutine: "none", "wait", "close" or "done"
    totals,     \* CalculateOdds: totalWins, totalTies, totalSims
    odds,       \* the *OddsResult returned, as counts over totalSims
    wk,         \* the worker goroutines' locals, by launch index
    clock,      \* the last reading of the wall clock
    received,   \* history: the launch indices of the results aggregated, in order
    sharedWrites \* history: the writes into holeArr, as <<worker, index>>

evalVars == <<pc, cards, result>>
cmpVars == <<ha, hb, hc, cmp>>
inputVars == <<holeCards, boardCards, numOpponents, simulations, workers>>
oddsVars == <<inputVars, holeArr, mainPc, launched, wg, results, closed, closerPc,
              totals, odds, wk, clock, received, sharedWrites>>
vars == <<evalVars, cmpVars, oddsVars>>

(***************************************************************************)
(* internal/card                                                           *)
(***************************************************************************)

\* card.RankOrder: the ranks from lowest to highest.
RankOrder == <<"2", "3", "4", "5", "6", "7", "8", "9", "T", "J", "Q", "K", "A">>

\* card.AllSuits.
AllSuits == <<"S", "H", "D", "C">>

\* The index of each rank in RankOrder, as `for i, r := range RankOrder`
\* finds it.
RankIndex ==
    [r \in {RankOrder[i] : i \in 1..Len(RankOrder)} |->
        (CHOOSE i \in 1..Len(RankOrder) : RankOrder[i] = r) - 1]

\* (*Card).RankValue: the 0-based index of the card's rank in RankOrder, -1
\* when the rank is not in it.
RankValue(c) ==
    IF c.Rank \in DOMAIN RankIndex THEN RankIndex[c.Rank] ELSE -1

\* (*Card).Equal.
Equal(c, other) == c.Rank = other.Rank /\ c.Suit = other.Suit

\* card.NewDeck: suits in the outer loop, ranks in the inner one.
NewDeck ==
    [i \in 1..(Len(AllSuits) * Len(RankOrder)) |->
        [Rank |-> RankOrder[((i - 1) % Len(RankOrder)) + 1],
         Suit |-> AllSuits[((i - 1) \div Len(RankOrder)) + 1]]]

\* card.RemoveCards: the cards of the deck, in order, that equal none of
\* toRemove.
RemoveCards(deck, toRemove) ==
    SelectSeq(deck, LAMBDA c : ~\E k \in 1..Len(toRemove) : Equal(c, toRemove[k]))

(***************************************************************************)
(* internal/evaluator: hand ranks and results                              *)
(***************************************************************************)

HighCard == 1
OnePair == 2
TwoPair == 3
ThreeOfAKind == 4
Straight == 5
Flush == 6
FullHouse == 7
FourOfAKind == 8
StraightFlush == 9
RoyalFlush == 10

\* evaluator.HandRankNames.
HandRankNames ==
    <<"High Card", "One Pair", "Two Pair", "Three of a Kind", "Straight",
      "Flush", "Full House", "Four of a Kind", "Straight Flush", "Royal Flush">>

\* The nil *HandResult.
NoResult == [Rank |-> 0, Label |-> "", Kickers |-> <<>>]

\* &HandResult{Rank, Label, Kickers}.
HandResult(rank, kickers) ==
    [Rank |-> rank, Label |-> HandRankNames[rank], Kickers |-> kickers]

\* The loop of (*HandResult).Compare over the common prefix of the kickers.
RECURSIVE CompareKickers(_, _, _)
CompareKickers(k1, k2, i) ==
    IF ~(i <= Len(k1) /\ i <= Len(k2)) THEN 0
    ELSE IF k1[i] > k2[i] THEN 1
    ELSE IF k1[i] < k2[i] THEN -1
    ELSE CompareKickers(k1, k2, i + 1)

\* Compare with a kicker loop that also returns 1 on equal kickers (>=).
RECURSIVE CompareKickersGeq(_, _, _)
CompareKickersGeq(k1, k2, i) ==
    IF ~(i <= Len(k1) /\ i <= Len(k2)) THEN 0
    ELSE IF k1[i] >= k2[i] THEN 1
    ELSE IF k1[i] < k2[i] THEN -1
    ELSE CompareKickersGeq(k1, k2, i + 1)

CompareGeq(h1, h2) ==
    IF h1.Rank # h2.Rank
    THEN IF h1.Rank > h2.Rank THEN 1 ELSE -1
    ELSE CompareKickersGeq(h1.Kickers, h2.Kickers, 1)

\* (*HandResult).Compare: 1 if h1 wins, -1 if h2 wins, 0 if tie.
Compare(h1, h2) ==
    IF h1.Rank # h2.Rank
    THEN IF h1.Rank > h2.Rank THEN 1 ELSE -1
    ELSE CompareKickers(h1.Kickers, h2.Kickers, 1)

(***************************************************************************)
(* internal/evaluator: Go maps                                             *)
(***************************************************************************)

\* The keys of a Go map in insertion order: the distinct elements of a
\* sequence in order of first appearance.
RECURSIVE InsertionOrder(_, _)
InsertionOrder(s, i) ==
    IF i > Len(s) THEN <<>>
    ELSE IF \E k \in 1..(i - 1) : s[k] = s[i]
         THEN InsertionOrder(s, i + 1)
         ELSE <<s[i]>> \o InsertionOrder(s, i + 1)

\* `for k := range m`: Go leaves the iteration order of a map unspecified;
\* the runtime starts at a random offset.  The order is the insertion order
\* rotated by off.
MapIterOrder(keys, off) ==
    LET n == Len(keys)
    IN  IF n = 0 THEN <<>>
        ELSE [i \in 1..n |-> keys[((i - 1 + off) % n) + 1]]

\* The iteration offsets the model draws from.
MaxIterOffset == 2
IterOrders == 0..MaxIterOffset

(***************************************************************************)
(* internal/evaluator: the 5-card evaluation                               *)
(***************************************************************************)

Swap(s, i, j) == [s EXCEPT ![i] = s[j], ![j] = s[i]]

\* evaluateFiveCardHand's first loop: exchange sort of the cards by rank
\* value, highest first (i and j are 1-based here).
RECURSIVE SortCardsFrom(_, _, _)
SortCardsFrom(s, i, j) ==
    IF i > Len(s) THEN s
    ELSE IF j > Len(s) THEN SortCardsFrom(s, i + 1, i + 2)
    ELSE IF RankValue(s[j]) > RankValue(s[i])
         THEN SortCardsFrom(Swap(s, i, j), i, j + 1)
         ELSE SortCardsFrom(s, i, j + 1)

SortCards(cs) == SortCardsFrom(cs, 1, 2)

\* evaluator.rankCounts: rank -> number of cards of that rank.
rankCounts(cs) ==
    [r \in {cs[i].Rank : i \in 1..Len(cs)} |->
        Cardinality({i \in 1..Len(cs) : cs[i].Rank = r})]

\* isFlush without its length check.
isFlushAnyLength(cs) == \A i \in 2..Len(cs) : cs[i].Suit = cs[1].Suit

\* evaluator.isFlush.
isFlush(cs) ==
    IF Len(cs) < 5 THEN FALSE
    ELSE \A i \in 2..Len(cs) : cs[i].Suit = cs[1].Suit

\* isStraight's bubble sort of the unique rank values, descending.
RECURSIVE SortValuesFrom(_, _, _)
SortValuesFrom(v, i, j) ==
    IF i > Len(v) THEN v
    ELSE IF j > Len(v) THEN SortValuesFrom(v, i + 1, i + 2)
    ELSE IF v[j] > v[i]
         THEN SortValuesFrom(Swap(v, i, j), i, j + 1)
         ELSE SortValuesFrom(v, i, j + 1)

SortValues(v) == SortValuesFrom(v, 1, 2)

\* isStraight's scan for 5 consecutive values: i is the 0-based index.
RECURSIVE ScanRun(_, _)
ScanRun(values, i) ==
    IF ~(i <= Len(values) - 5) THEN <<FALSE, 0>>
    ELSE IF values[i + 1] - values[i + 5] = 4 THEN <<TRUE, values[i + 1]>>
    ELSE ScanRun(values, i + 1)

\* isStraight without its ace-low check.
isStraightNoWheel(cs, iter) ==
    IF Len(cs) < 5 THEN <<FALSE, 0>>
    ELSE
        LET inserted == InsertionOrder([i \in 1..Len(cs) |-> RankValue(cs[i])], 1)
            values == SortValues(MapIterOrder(inserted, iter))
        IN  ScanRun(values, 0)

\* evaluator.isStraight: <<is a straight, the high card's rank value>>.
isStraight(cs, iter) ==
    IF Len(cs) < 5 THEN <<FALSE, 0>>
    ELSE
        LET rankValues == {RankValue(cs[i]) : i \in 1..Len(cs)}
            inserted == InsertionOrder([i \in 1..Len(cs) |-> RankValue(cs[i])], 1)
            values == SortValues(MapIterOrder(inserted, iter))
            run == ScanRun(values, 0)
        IN  IF run[1] THEN run
            ELSE IF 12 \in rankValues /\ 0 \in rankValues /\ 1 \in rankValues
                    /\ 2 \in rankValues /\ 3 \in rankValues
                 THEN <<TRUE, 3>>
                 ELSE <<FALSE, 0>>

\* evaluateFiveCardHand's countsList before it is sorted: one rankCount
\* {rank, count, value} per key of counts, in map iteration order.
CountsList(sortedCards, iter) ==
    LET counts == rankCounts(sortedCards)
        inserted == InsertionOrder([i \in 1..Len(sortedCards) |-> sortedCards[i].Rank], 1)
        keys == MapIterOrder(inserted, iter)
    IN  [i \in 1..Len(keys) |->
            [rank |-> keys[i], count |-> counts[keys[i]],
             value |-> IF keys[i] \in DOMAIN RankIndex
                       THEN RankIndex[keys[i]] ELSE 0]]

\* evaluateFiveCardHand's second sort: by count descending, then by rank
\* value descending.
RECURSIVE SortCountsFrom(_, _, _)
SortCountsFrom(l, i, j) ==
    IF i > Len(l) THEN l
    ELSE IF j > Len(l) THEN SortCountsFrom(l, i + 1, i + 2)
    ELSE IF l[j].count > l[i].count
            \/ (l[j].count = l[i].count /\ l[j].value > l[i].value)
         THEN SortCountsFrom(Swap(l, i, j), i, j + 1)
         ELSE SortCountsFrom(l, i, j + 1)

\* The second sort without its tie-break on the rank value.
RECURSIVE SortCountsOnlyFrom(_, _, _)
SortCountsOnlyFrom(l, i, j) ==
    IF i > Len(l) THEN l
    ELSE IF j > Len(l) THEN SortCountsOnlyFrom(l, i + 1, i + 2)
    ELSE IF l[j].count > l[i].count
         THEN SortCountsOnlyFrom(Swap(l, i, j), i, j + 1)
         ELSE SortCountsOnlyFrom(l, i, j + 1)

SortCountsOnly(l) == SortCountsOnlyFrom(l, 1, 2)

\* The second sort left out: countsList stays in map iteration order.
SortCountsSkipped(l) == l

SortCounts(l) == SortCountsFrom(l, 1, 2)

\* The rank values of the cards, in the cards' order.
CardValues(cs) == [i \in 1..Len(cs) |-> RankValue(cs[i])]

\* The values of countsList[from..], in order.
CountValues(l, from) ==
    [i \in 1..(IF Len(l) >= from THEN Len(l) - from + 1 ELSE 0) |-> l[i + from - 1].value]

\* evaluator.evaluateFiveCardHand.
evaluateFiveCardHand(cs, iter) ==
    LET sortedCards == SortCards(cs)
        flush == isFlush(sortedCards)
        st == isStraight(sortedCards, iter)
        straight == st[1]
        straightHigh == st[2]
        countsList == SortCounts(CountsList(sortedCards, iter))
    IN  IF straight /\ flush /\ straightHigh = 12
            THEN HandResult(RoyalFlush, <<>>)
        ELSE IF straight /\ flush
            THEN HandResult(StraightFlush, <<straightHigh>>)
        ELSE IF Len(sortedCards) >= 4 /\ countsList[1].count = 4
            THEN HandResult(FourOfAKind,
                    IF Len(countsList) > 1
                    THEN <<countsList[1].value, countsList[2].value>>
                    ELSE <<countsList[1].value>>)
        ELSE IF Len(sortedCards) >= 5 /\ countsList[1].count = 3
                /\ countsList[2].count >= 2
            THEN HandResult(FullHouse, <<countsList[1].value, countsList[2].value>>)
        ELSE IF flush
            THEN HandResult(Flush, CardValues(sortedCards))
        ELSE IF straight
            THEN HandResult(Straight, <<straightHigh>>)
        ELSE IF Len(sortedCards) >= 3 /\ countsList[1].count = 3
            THEN HandResult(ThreeOfAKind,
                    <<countsList[1].value>> \o CountValues(countsList, 2))
        ELSE IF Len(sortedCards) >= 4 /\ countsList[1].count = 2
                /\ countsList[2].count = 2
            THEN HandResult(TwoPair,
                    IF Len(countsList) > 2
                    THEN <<countsList[1].value, countsList[2].value, countsList[3].value>>
                    ELSE <<countsList[1].value, countsList[2].value>>)
        ELSE IF Len(sortedCards) >= 2 /\ countsList[1].count = 2
            THEN HandResult(OnePair,
                    <<countsList[1].value>> \o CountValues(countsList, 2))
        ELSE HandResult(HighCard, CardValues(sortedCards))

\* countsList[i].count for a 0-based i; -1 stands for the read out of range.
CountAt(l, i) == IF i < Len(l) THEN l[i + 1].count ELSE -1

\* The 0-based indexes at which evaluateFiveCardHand reads countsList on
\* its way to the return it takes: the reads of the conditions, which stop
\* at the first false conjunct, and those of the body of the branch taken.
CountReads(cs, iter) ==
    LET sortedCards == SortCards(cs)
        n == Len(sortedCards)
        flush == isFlush(sortedCards)
        straight == isStraight(sortedCards, iter)[1]
        l == SortCounts(CountsList(sortedCards, iter))
        c0 == CountAt(l, 0)
        c1 == CountAt(l, 1)
        rest == 1..(Len(l) - 1)
        fourTest == IF n >= 4 THEN {0} ELSE {}
        fullTest == IF n >= 5 THEN {0} \cup (IF c0 = 3 THEN {1} ELSE {}) ELSE {}
        threeTest == IF n >= 3 THEN {0} ELSE {}
        twoTest == IF n >= 4 THEN {0} \cup (IF c0 = 2 THEN {1} ELSE {}) ELSE {}
        oneTest == IF n >= 2 THEN {0} ELSE {}
    IN  IF straight /\ flush THEN {}
        ELSE IF n >= 4 /\ c0 = 4
            THEN fourTest \cup {0} \cup (IF Len(l) > 1 THEN {1} ELSE {})
        ELSE IF n >= 5 /\ c0 = 3 /\ c1 >= 2
            THEN fourTest \cup fullTest \cup {0, 1}
        ELSE IF flush \/ straight
            THEN fourTest \cup fullTest
        ELSE IF n >= 3 /\ c0 = 3
            THEN fourTest \cup fullTest \cup threeTest \cup {0} \cup rest
        ELSE IF n >= 4 /\ c0 = 2 /\ c1 = 2
            THEN fourTest \cup fullTest \cup threeTest \cup twoTest
                    \cup {0, 1} \cup (IF Len(l) > 2 THEN {2} ELSE {})
        ELSE IF n >= 2 /\ c0 = 2
            THEN fourTest \cup fullTest \cup threeTest \cup twoTest \cup oneTest
                    \cup {0} \cup rest
        ELSE fourTest \cup fullTest \cup threeTest \cup twoTest \cup oneTest

(***************************************************************************)
(* internal/evaluator: the best hand of 1 to 7 cards                       *)
(***************************************************************************)

\* helper with its loop stopping one card early (i < n-1).
RECURSIVE helperStopsEarly(_, _, _, _)
helperStopsEarly(cs, k, start, combo) ==
    IF Len(combo) = k THEN <<combo>>
    ELSE LET RECURSIVE Loop(_)
             Loop(i) ==
                IF ~(i < Len(cs) - 1) THEN <<>>
                ELSE helperStopsEarly(cs, k, i + 1, Append(combo, cs[i + 1])) \o Loop(i + 1)
         IN  Loop(start)

\* generateCombinations' helper(start, combo): the combinations appended to
\* result, in order.  start is 0-based.  A completed combo is copied before
\* it is appended, and a slot of combo's backing array is rewritten only
\* after the call that read it has returned, so combo is a value here.
RECURSIVE helper(_, _, _, _)
helper(cs, k, start, combo) ==
    IF Len(combo) = k THEN <<combo>>
    ELSE LET RECURSIVE Loop(_)
             Loop(i) ==
                IF ~(i < Len(cs)) THEN <<>>
                ELSE helper(cs, k, i + 1, Append(combo, cs[i + 1])) \o Loop(i + 1)
         IN  Loop(start)

\* evaluator.generateCombinations.
generateCombinations(cs, k) == helper(cs, k, 0, <<>>)

\* EvaluateHand's loop over the combinations, from the i-th one on.
RECURSIVE BestFrom(_, _, _, _)
BestFrom(combinations, i, bestHand, iter) ==
    IF i > Len(combinations) THEN bestHand
    ELSE LET res == evaluateFiveCardHand(combinations[i], iter)
         IN  IF bestHand = NoResult \/ Compare(res, bestHand) > 0
             THEN BestFrom(combinations, i + 1, res, iter)
             ELSE BestFrom(combinations, i + 1, bestHand, iter)

\* EvaluateHand taking the hands of fewer than 7 cards as given
\* (len(cards) < 7).
EvaluateHandSixAsGiven(cs, iter) ==
    IF Len(cs) < 1 THEN NoResult
    ELSE IF Len(cs) < 7 THEN evaluateFiveCardHand(cs, iter)
    ELSE BestFrom(generateCombinations(cs, 5), 1, NoResult, iter)

\* evaluator.EvaluateHand.
EvaluateHand(cs, iter) ==
    IF Len(cs) < 1 THEN NoResult
    ELSE IF Len(cs) < 5 THEN evaluateFiveCardHand(cs, iter)
    ELSE BestFrom(generateCombinations(cs, 5), 1, NoResult, iter)

(***************************************************************************)
(* Idle values of the variables a specification does not use               *)
(***************************************************************************)

IdleEval == pc = "idle" /\ cards = <<>> /\ result = NoResult
IdleCompare == ha = NoResult /\ hb = NoResult /\ hc = NoResult /\ cmp = <<>>
IdleOdds ==
    /\ holeCards = <<>> /\ holeArr = <<>> /\ boardCards = <<>>
    /\ numOpponents = 0 /\ simulations = 0 /\ workers = 0
    /\ mainPc = "idle" /\ launched = 0 /\ wg = 0
    /\ results = <<>> /\ closed = FALSE /\ closerPc = "none"
    /\ totals = <<>> /\ odds = <<>> /\ wk = <<>>
    /\ clock = 0 /\ received = <<>> /\ sharedWrites = {}

(***************************************************************************)
(* The evaluator's inputs                                                  *)
(***************************************************************************)

\* The deck the 5-card hands are drawn from: the spades of the LowRanks
\* lowest and the HighRanks highest ranks, the Two and the Ace of every
\* suit, and the King of hearts.
LowRanks == 5
HighRanks == 5

InEvalDeck(c) ==
    \/ c.Suit = "S" /\ (RankValue(c) < LowRanks \/ RankValue(c) >= 13 - HighRanks)
    \/ c.Rank \in {"2", "A"}
    \/ c.Suit = "H" /\ c.Rank = "K"

EvalDeck == SelectSeq(NewDeck, InEvalDeck)

\* The deck the 5-, 6- and 7-card hands of EvaluateHand are drawn from: the
\* spades of the HighRanks highest ranks, the Ace of every suit, and the Two
\* of spades and of hearts.
InBestDeck(c) ==
    \/ c.Suit = "S" /\ RankValue(c) >= 13 - HighRanks
    \/ c.Rank = "A"
    \/ c.Rank = "2" /\ c.Suit \in {"S", "H"}

BestDeck == SelectSeq(NewDeck, InBestDeck)

\* The strictly ascending n-tuples of indices in 1..m.
RECURSIVE AscTuples(_, _)
AscTuples(m, n) ==
    IF n = 0 THEN {<<>>}
    ELSE UNION {{Append(t, j) : j \in (IF t = <<>> THEN 1 ELSE t[Len(t)] + 1)..m} :
                    t \in AscTuples(m, n - 1)}

\* A sequence reversed and rotated by two.
Scramble(s) == [i \in 1..Len(s) |-> s[((Len(s) - i + 2) % Len(s)) + 1]]

\* The hands of n cards of a deck, each in deck order and scrambled.
Hands(deck, n) ==
    UNION {{[i \in 1..n |-> deck[t[i]]], Scramble([i \in 1..n |-> deck[t[i]]])} :
              t \in AscTuples(Len(deck), n)}

(***************************************************************************)
(* SpecEval: evaluateFiveCardHand applied to a hand of 5 distinct cards    *)
(***************************************************************************)

InitEval ==
    /\ pc = "call"
    /\ cards \in Hands(EvalDeck, 5)
    /\ result = NoResult
    /\ IdleCompare
    /\ IdleOdds

\* A call of evaluateFiveCardHand on the cards; the maps are iterated from
\* any of the offsets.
EvaluateFive ==
    /\ pc = "call"
    /\ \E iter \in IterOrders : result' = evaluateFiveCardHand(cards, iter)
    /\ pc' = "return"
    /\ UNCHANGED <<cards, cmpVars, oddsVars>>

NextEval == EvaluateFive
SpecEval == InitEval /\ [][NextEval]_vars

(***************************************************************************)
(* SpecBest: EvaluateHand applied to a hand of 5, 6 or 7 distinct cards    *)
(***************************************************************************)

MaxHand == 7

InitBest ==
    /\ pc = "call"
    /\ cards \in UNION {Hands(BestDeck, n) : n \in 5..MaxHand}
    /\ result = NoResult
    /\ IdleCompare
    /\ IdleOdds

\* A call of EvaluateHand on the cards.
Evaluate ==
    /\ pc = "call"
    /\ \E iter \in IterOrders : result' = EvaluateHand(cards, iter)
    /\ pc' = "return"
    /\ UNCHANGED <<cards, cmpVars, oddsVars>>

NextBest == Evaluate
SpecBest == InitBest /\ [][NextBest]_vars

(***************************************************************************)
(* SpecHand: EvaluateHand applied to 1 to 7 distinct cards in four orders  *)
(***************************************************************************)

\* The cards the hands are drawn from: the first HandDeckSize of these.
HandDeckSize == 8
HandCards ==
    <<[Rank |-> "A", Suit |-> "S"], [Rank |-> "A", Suit |-> "H"],
      [Rank |-> "A", Suit |-> "D"], [Rank |-> "A", Suit |-> "C"],
      [Rank |-> "K", Suit |-> "S"], [Rank |-> "K", Suit |-> "H"],
      [Rank |-> "Q", Suit |-> "S"], [Rank |-> "J", Suit |-> "S"],
      [Rank |-> "T", Suit |-> "S"], [Rank |-> "2", Suit |-> "H"]>>
HandDeck == SubSeq(HandCards, 1, HandDeckSize)

\* A sequence reversed, and rotated by one.
Reverse(s) == [i \in 1..Len(s) |-> s[Len(s) - i + 1]]
RotateOne(s) == [i \in 1..Len(s) |-> s[(i % Len(s)) + 1]]

\* The hands of n cards of HandDeck in deck order.
HandsInOrder(n) ==
    {[i \in 1..n |-> HandDeck[t[i]]] : t \in AscTuples(Len(HandDeck), n)}

\* The orders in which a hand is supplied.
Orders(s) == {s, Scramble(s), Reverse(s), RotateOne(s)}

InitHand ==
    /\ pc = "call"
    /\ cards \in UNION {Orders(h) : h \in UNION {HandsInOrder(n) : n \in 1..MaxHand}}
    /\ result = NoResult
    /\ IdleCompare
    /\ IdleOdds

SpecHand == InitHand /\ [][NextBest]_vars

\* EvaluateHand tabulated on the hands of HandDeck in deck order.
HandTable ==
    {[hand |-> h, val |-> EvaluateHand(h, 0)] :
        h \in UNION {HandsInOrder(n) : n \in 1..MaxHand}}

(***************************************************************************)
(* SpecCompare: Compare applied to results of EvaluateHand                 *)
(***************************************************************************)

\* The hands whose results are compared: the hands of 1 to 5 cards among
\* the first CompareDeckSize cards of this list.
CompareDeckSize == 5
CompareCards ==
    <<[Rank |-> "A", Suit |-> "S"], [Rank |-> "A", Suit |-> "H"],
      [Rank |-> "K", Suit |-> "S"], [Rank |-> "2", Suit |-> "S"],
      [Rank |-> "2", Suit |-> "H"], [Rank |-> "K", Suit |-> "H"],
      [Rank |-> "Q", Suit |-> "S"]>>
CompareDeck == SubSeq(CompareCards, 1, CompareDeckSize)

CompareInputs ==
    {EvaluateHand([i \in 1..Len(t) |-> CompareDeck[t[i]]], 0) :
        t \in UNION {AscTuples(Len(CompareDeck), n) : n \in 1..5}}

InitCompare ==
    /\ pc = "call"
    /\ ha \in CompareInputs
    /\ hb \in CompareInputs
    /\ hc \in CompareInputs
    /\ cmp = <<>>
    /\ cards = <<>>
    /\ result = NoResult
    /\ IdleOdds

\* The calls ha.Compare(hb), hb.Compare(ha), hb.Compare(hc), ha.Compare(hc).
DoCompare ==
    /\ pc = "call"
    /\ cmp' = [ab |-> Compare(ha, hb), ba |-> Compare(hb, ha),
               bc |-> Compare(hb, hc), ac |-> Compare(ha, hc)]
    /\ pc' = "return"
    /\ UNCHANGED <<cards, result, ha, hb, hc, oddsVars>>

NextCompare == DoCompare
SpecCompare == InitCompare /\ [][NextCompare]_vars

(***************************************************************************)
(* internal/simulator: the random source and the shuffle                   *)
(***************************************************************************)

\* rand.New(rand.NewSource(seed)): a generator whose stream is a function of
\* its seed alone.  The state of the generator is a number below 65537.
NewSource(seed) == seed % 65537

\* (*rand.Rand).Intn(n): <<a value in 0..n-1, the generator afterwards>>.
Intn(rng, n) ==
    LET next == (rng * 75 + 74) % 65537
    IN  <<next % n, next>>

\* shuffleDeck's loop from index i (0-based) down to 1.
RECURSIVE ShuffleFrom(_, _, _)
ShuffleFrom(deck, rng, i) ==
    IF ~(i > 0) THEN <<deck, rng>>
    ELSE LET r == Intn(rng, i + 1)
         IN  ShuffleFrom(Swap(deck, i + 1, r[1] + 1), r[2], i - 1)

\* simulator.shuffleDeck: <<the deck shuffled in place, the generator afterwards>>.
shuffleDeck(deck, rng) == ShuffleFrom(deck, rng, Len(deck) - 1)

(***************************************************************************)
(* internal/simulator: slices                                              *)
(***************************************************************************)

\* An unset slot of a backing array.
NilCard == [Rank |-> "", Suit |-> ""]

\* A parser that allocates room for a whole seven-card hand.
ParseCapacityRoomy(n) == n + 5

\* card.ParseCards allocates make([]*Card, 0, len(codes)): the capacity of
\* the slice it returns for n codes.
ParseCapacity(n) == n

\* append(holeCards, xs...): Go writes xs into the spare capacity of the
\* backing array when it fits, and copies into a new array otherwise.
\* arr: the backing array afterwards; out: the slice returned; written: the
\* indices of the backing array written.
AppendToHole(slice, arr, xs) ==
    LET inPlace == Len(xs) > 0 /\ slice.len + Len(xs) <= slice.cap
        arr2 == IF inPlace
                THEN [k \in 1..Len(arr) |->
                        IF k > slice.len /\ k <= slice.len + Len(xs) THEN xs[k - slice.len] ELSE arr[k]]
                ELSE arr
    IN  [arr |-> arr2,
         out |-> SubSeq(arr2, 1, slice.len) \o xs,
         written |-> IF inPlace THEN (slice.len + 1)..(slice.len + Len(xs)) ELSE {}]

(***************************************************************************)
(* internal/simulator: one trial of runSimulations                         *)
(***************************************************************************)

\* The opponents dealt from the top of the deck (idx := 0).
OpponentHandsFromTop(deck, missingCards, n) ==
    [j \in 1..n |-> <<deck[2 * (j - 1) + 1], deck[2 * (j - 1) + 2]>>]

\* The opponents' hole cards: two cards each from deck[idx], idx starting at
\* missingCards (0-based).
OpponentHands(deck, missingCards, n) ==
    [j \in 1..n |-> <<deck[missingCards + 2 * (j - 1) + 1],
                      deck[missingCards + 2 * (j - 1) + 2]>>]

\* The loop over the opponents' hands from the j-th on, keeping the best.
RECURSIVE BestOpponentFrom(_, _, _, _, _)
BestOpponentFrom(opponentHands, fullBoard, j, bestOpponent, iter) ==
    IF j > Len(opponentHands) THEN bestOpponent
    ELSE LET oppResult == EvaluateHand(opponentHands[j] \o fullBoard, iter)
         IN  IF bestOpponent = NoResult \/ Compare(oppResult, bestOpponent) > 0
             THEN BestOpponentFrom(opponentHands, fullBoard, j + 1, oppResult, iter)
             ELSE BestOpponentFrom(opponentHands, fullBoard, j + 1, bestOpponent, iter)

\* The comparison taken from the opponent's side.
ComparisonReversed(playerCards, fullBoard, opponentHands, iter) ==
    Compare(BestOpponentFrom(opponentHands, fullBoard, 1, NoResult, iter),
            EvaluateHand(playerCards, iter))

\* playerResult.Compare(bestOpponent) for the cards of a trial.
Comparison(playerCards, fullBoard, opponentHands, iter) ==
    Compare(EvaluateHand(playerCards, iter),
            BestOpponentFrom(opponentHands, fullBoard, 1, NoResult, iter))

\* The counting without its else: a win is counted as a tie too.
CountBoth(wins, ties, comparison) ==
    <<IF comparison > 0 THEN wins + 1 ELSE wins,
      IF comparison >= 0 THEN ties + 1 ELSE ties>>

\* `if comparison > 0 { wins++ } else if comparison == 0 { ties++ }`:
\* <<wins, ties>> afterwards.
Count(wins, ties, comparison) ==
    IF comparison > 0 THEN <<wins + 1, ties>>
    ELSE IF comparison = 0 THEN <<wins, ties + 1>>
    ELSE <<wins, ties>>

\* The end of an iteration: the hands are evaluated and compared.  The
\* player's cards are the value of append(holeCards, fullBoard...).
Showdown(hole, fullBoard, opponentHands, shuffled, iter) ==
    [deck |-> shuffled[1],
     rng |-> shuffled[2],
     fullBoard |-> fullBoard,
     opponentHands |-> opponentHands,
     playerCards |-> hole \o fullBoard,
     comparison |-> Comparison(hole \o fullBoard, fullBoard, opponentHands, iter)]

\* The middle of an iteration: the board is completed and the opponents
\* are dealt from the shuffled deck.
Deal(hole, board, opponents, shuffled, iter) ==
    Showdown(hole,
             board \o SubSeq(shuffled[1], 1, 5 - Len(board)),
             OpponentHands(shuffled[1], 5 - Len(board), opponents),
             shuffled, iter)

\* One iteration of runSimulations' loop on a worker's locals: the deck and
\* the generator afterwards, the cards dealt, and the comparison.
Trial(hole, board, opponents, deck, rng, iter) ==
    Deal(hole, board, opponents, shuffleDeck(deck, rng), iter)

(***************************************************************************)
(* internal/simulator: CalculateOdds and its goroutines                    *)
(***************************************************************************)

\* The share with the remainder going to one worker too many (i <= extraSims).
WorkerSimsOffByOne(i, sims, nworkers) ==
    IF i <= sims % nworkers THEN (sims \div nworkers) + 1 ELSE sims \div nworkers

\* The trials of the worker launched i-th (0-based): simulationsPerWorker,
\* one more when i < extraSims.
WorkerSims(i, sims, nworkers) ==
    LET simulationsPerWorker == sims \div nworkers
        extraSims == sims % nworkers
    IN  IF i < extraSims THEN simulationsPerWorker + 1 ELSE simulationsPerWorker

\* make(chan workerResult, workers): the capacity of the results channel.
ChanCap(nworkers) == nworkers

\* A Wait that does not wait.
WaitReturnsAtOnce(counter) == TRUE

\* wg.Wait returns when the counter is zero.
WaitReturns(counter) == counter = 0

\* A worker that forgets its deferred wg.Done.
DoneForgotten(counter) == counter

\* wg.Done.
Done(counter) == counter - 1

\* The bounds of a run.
MaxWorkers == 2
MaxSims == 3
MaxFairSims == 2
MaxClock == 1

\* The hole cards, board cards and opponents of the runs: before the flop
\* against two opponents, on the turn and on the river against one.
C(r, u) == [Rank |-> r, Suit |-> u]
Scenarios ==
    {[hole |-> <<C("A", "S"), C("A", "H")>>, board |-> <<>>, opponents |-> 2],
     [hole |-> <<C("3", "C"), C("3", "D")>>,
      board |-> <<C("A", "S"), C("K", "H"), C("Q", "D"), C("J", "C")>>, opponents |-> 1],
     [hole |-> <<C("K", "C"), C("2", "D")>>,
      board |-> <<C("A", "S"), C("A", "H"), C("K", "D"), C("K", "H"), C("Q", "S")>>,
      opponents |-> 1]}

\* The first n iterations of a worker's loop, each with the locals it
\* started from.
RECURSIVE TrialsFrom(_, _, _, _, _, _, _)
RECURSIVE TrialsAfter(_, _, _, _, _, _, _, _)
TrialsFrom(hole, board, opponents, deck, rng, iter, n) ==
    IF n = 0 THEN {}
    ELSE TrialsAfter(hole, board, opponents, deck, rng, iter, n,
                     Trial(hole, board, opponents, deck, rng, iter))

\* The entry of one iteration, whose outcome is t, and of those after it.
TrialsAfter(hole, board, opponents, deck, rng, iter, n, t) ==
    {[key |-> <<rng, iter, opponents, hole, board, deck>>, val |-> t]}
        \cup TrialsFrom(hole, board, opponents, t.deck, t.rng, iter, n - 1)

\* Trial tabulated on the iterations the runs below perform, so that the
\* hands of an iteration are evaluated once and not in every state.
TrialTable ==
    UNION {TrialsFrom(sc.hole, sc.board, sc.opponents,
                      RemoveCards(NewDeck, sc.hole \o sc.board),
                      NewSource(seed), iter, MaxSims) :
              sc \in Scenarios, seed \in 0..MaxClock, iter \in IterOrders}

\* Trial, read from the table where the table has it.
TrialOf(hole, board, opponents, deck, rng, iter) ==
    IF \E e \in TrialTable : e.key = <<rng, iter, opponents, hole, board, deck>>
    THEN (CHOOSE e \in TrialTable : e.key = <<rng, iter, opponents, hole, board, deck>>).val
    ELSE Trial(hole, board, opponents, deck, rng, iter)

\* The state in which HandleOdds calls CalculateOdds: the slices are those of
\* card.ParseCards, simulations and workers are at least 1.
InitOddsOn(scenarios, simsRange, workersRange) ==
    /\ \E sc \in scenarios :
        /\ holeCards = [cards |-> sc.hole, len |-> Len(sc.hole),
                        cap |-> ParseCapacity(Len(sc.hole))]
        /\ holeArr = [k \in 1..ParseCapacity(Len(sc.hole)) |->
                        IF k <= Len(sc.hole) THEN sc.hole[k] ELSE NilCard]
        /\ boardCards = sc.board
        /\ numOpponents = sc.opponents
    /\ simulations \in simsRange
    /\ workers \in workersRange
    /\ mainPc = "launch"
    /\ launched = 0
    /\ wg = 0
    /\ results = <<>>
    /\ closed = FALSE
    /\ closerPc = "none"
    /\ totals = [wins |-> 0, ties |-> 0, sims |-> 0]
    /\ odds = <<>>
    /\ wk = <<>>
    /\ clock = 0
    /\ received = <<>>
    /\ sharedWrites = {}
    /\ IdleEval
    /\ IdleCompare

InitOddsWith(simsRange, workersRange) == InitOddsOn(Scenarios, simsRange, workersRange)

InitOdds == InitOddsWith(1..MaxSims, 1..MaxWorkers)

\* One iteration of the launch loop: wg.Add(1), sims, go func().
LaunchWorker ==
    /\ mainPc = "launch"
    /\ launched < workers
    /\ wg' = wg + 1
    /\ wk' = [k \in 0..launched |->
                IF k < launched THEN wk[k]
                ELSE [pc |-> "start", sims |-> WorkerSims(launched, simulations, workers),
                      i |-> 0, wins |-> 0, ties |-> 0, seed |-> -1, rng |-> 0,
                      deck |-> <<>>, trial |-> <<>>]]
    /\ launched' = launched + 1
    /\ UNCHANGED <<evalVars, cmpVars, inputVars, holeArr, mainPc, results, closed,
                   closerPc, totals, odds, clock, received, sharedWrites>>

\* After the loop: go func() { wg.Wait(); close(results) }().
SpawnCloser ==
    /\ mainPc = "launch"
    /\ ~(launched < workers)
    /\ closerPc' = "wait"
    /\ mainPc' = "range"
    /\ UNCHANGED <<evalVars, cmpVars, inputVars, holeArr, launched, wg, results,
                   closed, totals, odds, wk, clock, received, sharedWrites>>

\* wg.Wait() returns.
CloserWait ==
    /\ closerPc = "wait"
    /\ WaitReturns(wg)
    /\ closerPc' = "close"
    /\ UNCHANGED <<evalVars, cmpVars, inputVars, holeArr, mainPc, launched, wg,
                   results, closed, totals, odds, wk, clock, received, sharedWrites>>

\* close(results).
CloserClose ==
    /\ closerPc = "close"
    /\ closed' = TRUE
    /\ closerPc' = "done"
    /\ UNCHANGED <<evalVars, cmpVars, inputVars, holeArr, mainPc, launched, wg,
                   results, totals, odds, wk, clock, received, sharedWrites>>

\* runSimulations up to its loop: known, deck, wins, ties, rng.  The seed is
\* a reading of the wall clock, which never runs backwards.
WorkerSetup(k) ==
    /\ wk[k].pc = "start"
    /\ LET known == AppendToHole(holeCards, holeArr, boardCards)
       IN  /\ holeArr' = known.arr
           /\ sharedWrites' = sharedWrites \cup {<<k, x>> : x \in known.written}
           /\ \E now \in clock..MaxClock :
                /\ clock' = now
                /\ wk' = [wk EXCEPT ![k].pc = "loop",
                                    ![k].deck = RemoveCards(NewDeck, known.out),
                                    ![k].seed = now,
                                    ![k].rng = NewSource(now)]
    /\ UNCHANGED <<evalVars, cmpVars, inputVars, mainPc, launched, wg, results,
                   closed, closerPc, totals, odds, received>>

\* The state after worker k's iteration with outcome t, the player's cards
\* being appended as `player` and the counters becoming `counted`.
TrialStep(k, t, player, counted) ==
    /\ holeArr' = player.arr
    /\ sharedWrites' = sharedWrites \cup {<<k, x>> : x \in player.written}
    /\ wk' = [wk EXCEPT ![k].deck = t.deck,
                        ![k].rng = t.rng,
                        ![k].wins = counted[1],
                        ![k].ties = counted[2],
                        ![k].i = @ + 1,
                        ![k].trial = [fullBoard |-> t.fullBoard,
                                      opponentHands |-> t.opponentHands,
                                      playerCards |-> player.out,
                                      comparison |-> t.comparison]]

\* The outcome t of worker k's iteration is counted.
TrialCounted(k, t) ==
    TrialStep(k, t, AppendToHole(holeCards, holeArr, t.fullBoard),
              Count(wk[k].wins, wk[k].ties, t.comparison))

\* One iteration of runSimulations' loop.  append(holeCards, fullBoard...)
\* writes the board into holeArr when the capacity allows.
WorkerTrial(k) ==
    /\ wk[k].pc = "loop"
    /\ wk[k].i < wk[k].sims
    /\ \E iter \in IterOrders :
          \E t \in {TrialOf(holeCards.cards, boardCards, numOpponents,
                            wk[k].deck, wk[k].rng, iter)} :
             TrialCounted(k, t)
    /\ UNCHANGED <<evalVars, cmpVars, inputVars, mainPc, launched, wg, results,
                   closed, closerPc, totals, odds, clock, received>>

\* runSimulations returns and the worker sends its result: the send blocks
\* while the buffer is full and panics on a closed channel.
WorkerSend(k) ==
    /\ wk[k].pc = "loop"
    /\ ~(wk[k].i < wk[k].sims)
    /\ \/ /\ closed
          /\ wk' = [wk EXCEPT ![k].pc = "panic"]
          /\ UNCHANGED results
       \/ /\ ~closed
          /\ Len(results) < ChanCap(workers)
          /\ results' = Append(results, [wins |-> wk[k].wins, ties |-> wk[k].ties,
                                         simulations |-> wk[k].sims, from |-> k])
          /\ wk' = [wk EXCEPT ![k].pc = "sent"]
    /\ UNCHANGED <<evalVars, cmpVars, inputVars, holeArr, mainPc, launched, wg,
                   closed, closerPc, totals, odds, clock, received, sharedWrites>>

\* The deferred wg.Done().
WorkerDone(k) ==
    /\ wk[k].pc = "sent"
    /\ wg' = Done(wg)
    /\ wk' = [wk EXCEPT ![k].pc = "done"]
    /\ UNCHANGED <<evalVars, cmpVars, inputVars, holeArr, mainPc, launched, results,
                   closed, closerPc, totals, odds, clock, received, sharedWrites>>

\* One iteration of `for result := range results`.
Receive ==
    /\ mainPc = "range"
    /\ results # <<>>
    /\ totals' = [wins |-> totals.wins + Head(results).wins,
                  ties |-> totals.ties + Head(results).ties,
                  sims |-> totals.sims + Head(results).simulations]
    /\ received' = Append(received, Head(results).from)
    /\ results' = Tail(results)
    /\ UNCHANGED <<evalVars, cmpVars, inputVars, holeArr, mainPc, launched, wg,
                   closed, closerPc, odds, wk, clock, sharedWrites>>

\* The range loop ends on the closed, drained channel; totalLosses and the
\* OddsResult, each probability as <<count, totalSims>>.
Finish ==
    /\ mainPc = "range"
    /\ results = <<>>
    /\ closed
    /\ LET totalLosses == totals.sims - totals.wins - totals.ties
       IN  odds' = [Win |-> <<totals.wins, totals.sims>>,
                    Tie |-> <<totals.ties, totals.sims>>,
                    Loss |-> <<totalLosses, totals.sims>>]
    /\ mainPc' = "done"
    /\ UNCHANGED <<evalVars, cmpVars, inputVars, holeArr, launched, wg, results,
                   closed, closerPc, totals, wk, clock, received, sharedWrites>>

NextOdds ==
    \/ LaunchWorker
    \/ SpawnCloser
    \/ CloserWait
    \/ CloserClose
    \/ \E k \in DOMAIN wk : WorkerSetup(k)
    \/ \E k \in DOMAIN wk : WorkerTrial(k)
    \/ \E k \in DOMAIN wk : WorkerSend(k)
    \/ \E k \in DOMAIN wk : WorkerDone(k)
    \/ Receive
    \/ Finish

SpecOdds == InitOdds /\ [][NextOdds]_vars

\* The runs of one worker, whose trials follow one another.
InitTrialOdds == InitOddsWith(1..MaxSims, 1..1)
SpecTrial == InitTrialOdds /\ [][NextOdds]_vars

\* The runs that deal the most and the fewest cards: nine opponents before
\* the flop, one on the river, and three on the flop; one worker, up to
\* MaxDealSims trials.
MaxDealSims == 2
DealScenarios ==
    {[hole |-> <<C("A", "S"), C("A", "H")>>, board |-> <<>>, opponents |-> 9],
     [hole |-> <<C("K", "C"), C("2", "D")>>,
      board |-> <<C("A", "S"), C("A", "H"), C("K", "D"), C("K", "H"), C("Q", "S")>>,
      opponents |-> 1],
     [hole |-> <<C("7", "C"), C("7", "D")>>,
      board |-> <<C("A", "S"), C("K", "H"), C("Q", "D")>>, opponents |-> 3]}
InitDealOdds == InitOddsOn(DealScenarios, 1..MaxDealSims, 1..1)
SpecDeal == InitDealOdds /\ [][NextOdds]_vars

\* The runs checked for termination: the Go scheduler runs a goroutine that
\* can take a step, so some enabled step is eventually taken.
InitFairOdds == InitOddsWith(1..MaxFairSims, 1..MaxWorkers)
FairSpecOdds == InitFairOdds /\ [][NextOdds]_vars /\ WF_vars(NextOdds)

(***************************************************************************)
(* The definitions of the hand categories, stated on the set of cards      *)
(***************************************************************************)

CardSet(cs) == {cs[i] : i \in 1..Len(cs)}
ValuesOf(S) == {RankValue(c) : c \in S}
CountOf(S, v) == Cardinality({c \in S : RankValue(c) = v})
ValuesWithCount(S, n) == {v \in ValuesOf(S) : CountOf(S, v) = n}
MaxOf(V) == CHOOSE v \in V : \A w \in V : w <= v
MinOf(V) == CHOOSE v \in V : \A w \in V : v <= w

RECURSIVE Descending(_)
Descending(V) ==
    IF V = {} THEN <<>> ELSE <<MaxOf(V)>> \o Descending(V \ {MaxOf(V)})

Wheel == {12, 0, 1, 2, 3}
DefFlush(S) == \A c, d \in S : c.Suit = d.Suit
DefStraight(S) ==
    \/ Cardinality(ValuesOf(S)) = 5 /\ MaxOf(ValuesOf(S)) - MinOf(ValuesOf(S)) = 4
    \/ ValuesOf(S) = Wheel
DefStraightHigh(S) == IF ValuesOf(S) = Wheel THEN 3 ELSE MaxOf(ValuesOf(S))

\* The first category of the priority order that a set of 5 cards matches.
DefCategory(S) ==
    IF DefStraight(S) /\ DefFlush(S) /\ DefStraightHigh(S) = 12 THEN RoyalFlush
    ELSE IF DefStraight(S) /\ DefFlush(S) THEN StraightFlush
    ELSE IF ValuesWithCount(S, 4) # {} THEN FourOfAKind
    ELSE IF ValuesWithCount(S, 3) # {} /\ ValuesWithCount(S, 2) # {} THEN FullHouse
    ELSE IF DefFlush(S) THEN Flush
    ELSE IF DefStraight(S) THEN Straight
    ELSE IF ValuesWithCount(S, 3) # {} THEN ThreeOfAKind
    ELSE IF Cardinality(ValuesWithCount(S, 2)) = 2 THEN TwoPair
    ELSE IF ValuesWithCount(S, 2) # {} THEN OnePair
    ELSE HighCard

\* The kicker signature prescribed for a set of 5 cards of a category.
DefKickers(S, cat) ==
    LET ofCount(n) == Descending(ValuesWithCount(S, n))
    IN  CASE cat = RoyalFlush -> <<>>
          [] cat \in {StraightFlush, Straight} -> <<DefStraightHigh(S)>>
          [] cat = FourOfAKind -> ofCount(4) \o ofCount(1)
          [] cat = FullHouse -> ofCount(3) \o ofCount(2)
          [] cat \in {Flush, HighCard} -> Descending(ValuesOf(S))
          [] cat = ThreeOfAKind -> ofCount(3) \o ofCount(1)
          [] cat = TwoPair -> ofCount(2) \o ofCount(1)
          [] cat = OnePair -> ofCount(2) \o ofCount(1)

\* The 5-card subsets of a hand, each as the cards at ascending positions.
FiveCardSubsets(cs) ==
    {[i \in 1..5 |-> cs[Descending(T)[6 - i]]] :
        T \in {U \in SUBSET (1..Len(cs)) : Cardinality(U) = 5}}

(***************************************************************************)
(* Claims                                                                  *)
(***************************************************************************)

\* C1: for 5, 6 or 7 distinct cards EvaluateHand returns the category and
\* kicker signature of a 5-card subset that no 5-card subset beats under
\* Compare, and generateCombinations yields every 5-card subset exactly once.
C1_BestOverAllSubsets ==
    (pc = "return" /\ Len(cards) \in 5..7) =>
        LET subs == FiveCardSubsets(cards)
            combos == generateCombinations(cards, 5)
        IN  /\ \E s \in subs :
                /\ evaluateFiveCardHand(s, 0).Rank = result.Rank
                /\ evaluateFiveCardHand(s, 0).Kickers = result.Kickers
            /\ \A s \in subs : Compare(result, evaluateFiveCardHand(s, 0)) >= 0
            /\ {CardSet(combos[i]) : i \in 1..Len(combos)} = {CardSet(s) : s \in subs}
            /\ Len(combos) = Cardinality(subs)

\* A 7-card hand whose result beats the evaluation of its first five cards.
C1_Witness ==
    /\ pc = "return"
    /\ Len(cards) = 7
    /\ Compare(result, evaluateFiveCardHand(SubSeq(cards, 1, 5), 0)) > 0
    /\ Compare(result, evaluateFiveCardHand(SubSeq(cards, 3, 7), 0)) = 0

\* C2: for 5 distinct cards the category returned is the first one matched
\* in the order Royal Flush, Straight Flush, Four of a Kind, Full House,
\* Flush, Straight, Three of a Kind, Two Pair, One Pair, High Card; a
\* straight is 5 consecutive distinct values or the wheel, with no other
\* wrap-around of the Ace.
C2_CategoryByPriority ==
    (pc = "return" /\ Len(cards) = 5) => result.Rank = DefCategory(CardSet(cards))

\* The wheel A-2-3-4-5 in mixed suits, returned as a Straight.
C2_Witness ==
    /\ pc = "return"
    /\ ValuesOf(CardSet(cards)) = Wheel
    /\ ~DefFlush(CardSet(cards))
    /\ result.Rank = Straight

\* C3: for 5 distinct cards the kicker signature returned is the one
\* prescribed for the category returned.
C3_KickersByCategory ==
    (pc = "return" /\ Len(cards) = 5) =>
        result.Kickers = DefKickers(CardSet(cards), result.Rank)

\* Aces and Twos with a King: Two Pair with kickers [12, 0, 11].
C3_Witness ==
    /\ pc = "return"
    /\ result.Rank = TwoPair
    /\ result.Kickers = <<12, 0, 11>>

\* Transitivity of the outcomes ab, bc, ac, with the equal outcome.
TransitiveOutcomes ==
    /\ (cmp.ab >= 0 /\ cmp.bc >= 0) => cmp.ac >= 0
    /\ (cmp.ab >= 0 /\ cmp.bc >= 0 /\ (cmp.ab > 0 \/ cmp.bc > 0)) => cmp.ac > 0
    /\ (cmp.ab = 0 /\ cmp.bc = 0) => cmp.ac = 0

AntisymmetricOutcomes == cmp.ab = -cmp.ba

CategoryDecides ==
    /\ ha.Rank > hb.Rank => cmp.ab = 1
    /\ ha.Rank < hb.Rank => cmp.ab = -1

\* C4 (as amended): Compare(a,b) = -Compare(b,a) for all a, b; when the
\* categories differ the higher category wins whatever the kickers are; and
\* Compare is transitive, the equal outcome included, on hands of the same
\* category whose kicker signatures have the same length.
C4_PreorderOnEqualLengths ==
    pc = "return" /\ cmp # <<>> =>
        /\ AntisymmetricOutcomes
        /\ CategoryDecides
        /\ (ha.Rank = hb.Rank /\ hb.Rank = hc.Rank
            /\ Len(ha.Kickers) = Len(hb.Kickers) /\ Len(hb.Kickers) = Len(hc.Kickers))
           => TransitiveOutcomes

\* Three hands of one category with kickers of one length, the first two
\* agreeing on the first kicker: a beats b and b beats c.
C4_Witness ==
    /\ pc = "return" /\ cmp # <<>>
    /\ ha.Rank = hb.Rank /\ hb.Rank = hc.Rank
    /\ Len(ha.Kickers) = 2 /\ Len(hb.Kickers) = 2 /\ Len(hc.Kickers) = 2
    /\ ha.Kickers[1] = hb.Kickers[1]
    /\ cmp.ab = 1 /\ cmp.bc = 1 /\ cmp.ac = 1

\* C4 (as claimed): Compare is antisymmetric, decided by the category when
\* the categories differ, and transitive on all hands of the same category.
C4_PreorderOnSameCategory ==
    pc = "return" /\ cmp # <<>> =>
        /\ AntisymmetricOutcomes
        /\ CategoryDecides
        /\ (ha.Rank = hb.Rank /\ hb.Rank = hc.Rank) => TransitiveOutcomes

(***************************************************************************)
(* CalculateOdds: counts, partition, aggregation, termination, sharing     *)
(***************************************************************************)

\* The sum of f[0], ..., f[n - 1].
RECURSIVE SumOf(_, _)
SumOf(f, n) == IF n = 0 THEN 0 ELSE f[n - 1] + SumOf(f, n - 1)

\* The number of messages of worker k sent so far: in the channel or taken
\* from it.
SendsOf(k) ==
    Cardinality({n \in 1..Len(results) : results[n].from = k})
        + Cardinality({n \in 1..Len(received) : received[n] = k})

\* C5: at aggregation totalSims >= 1, 0 <= totalWins, 0 <= totalTies,
\* totalWins + totalTies <= totalSims and totalLosses = totalSims - totalWins
\* - totalTies, so win + tie + loss is 1 (the three counts add up to the
\* common denominator) and each of win, tie, loss lies in [0, 1].
C5_CountsAtAggregation ==
    /\ totals.wins >= 0 /\ totals.ties >= 0
    /\ totals.wins + totals.ties <= totals.sims
    /\ mainPc = "done" =>
        /\ totals.sims >= 1
        /\ odds.Win = <<totals.wins, totals.sims>>
        /\ odds.Tie = <<totals.ties, totals.sims>>
        /\ odds.Loss = <<totals.sims - totals.wins - totals.ties, totals.sims>>
        /\ odds.Win[1] + odds.Tie[1] + odds.Loss[1] = totals.sims
        /\ \A p \in {odds.Win, odds.Tie, odds.Loss} : 0 <= p[1] /\ p[1] <= p[2]

\* A run that returns with wins, ties and losses all counted.
C5_Witness ==
    /\ mainPc = "done"
    /\ odds.Win[1] >= 1 /\ odds.Tie[1] >= 1 /\ odds.Loss[1] >= 1

\* The partition of t trials among w workers, for every t up to
\* PartitionRange and every w in [1, t]: base + 1 for the first r workers,
\* base for the rest, t in all.
PartitionRange == 12
PartitionExact ==
    \A t \in 1..PartitionRange : \A w \in 1..t :
        /\ \A i \in 0..(w - 1) :
              WorkerSims(i, t, w) = (t \div w) + (IF i < t % w THEN 1 ELSE 0)
        /\ SumOf([i \in 0..(w - 1) |-> WorkerSims(i, t, w)], w) = t

\* C6: with base = trials / workers and r = trials mod workers, worker i is
\* assigned base + 1 trials when i < r and base otherwise; the per-worker
\* counts sum to the requested trials, and so does the aggregated totalSims.
C6_PartitionSumsToTrials ==
    /\ PartitionExact
    /\ \A k \in DOMAIN wk :
          wk[k].sims = (simulations \div workers)
                         + (IF k < simulations % workers THEN 1 ELSE 0)
    /\ launched = workers =>
          SumOf([k \in DOMAIN wk |-> wk[k].sims], workers) = simulations
    /\ mainPc = "done" => totals.sims = simulations

\* A returned run whose trials do not divide evenly among its workers.
C6_Witness ==
    /\ mainPc = "done"
    /\ workers <= simulations
    /\ simulations % workers # 0
    /\ wk[0].sims = wk[workers - 1].sims + 1

\* C7: the probabilities are computed only after every worker has completed
\* all of its trials and its result has been added to the totals; no result
\* is lost or counted twice; the totals are the sums over the workers, in
\* whatever order they reported.
C7_AggregatesEveryWorkerOnce ==
    /\ \A k \in DOMAIN wk : wk[k].pc # "panic"
    /\ \A m, n \in 1..Len(received) : m # n => received[m] # received[n]
    /\ totals = [wins |-> SumOf([n \in 0..(Len(received) - 1) |-> wk[received[n + 1]].wins],
                                Len(received)),
                 ties |-> SumOf([n \in 0..(Len(received) - 1) |-> wk[received[n + 1]].ties],
                                Len(received)),
                 sims |-> SumOf([n \in 0..(Len(received) - 1) |-> wk[received[n + 1]].sims],
                                Len(received))]
    /\ odds # <<>> => mainPc = "done"
    /\ mainPc = "done" =>
        /\ launched = workers
        /\ Len(received) = workers
        /\ \A k \in 0..(workers - 1) :
              /\ wk[k].pc = "done"
              /\ wk[k].i = wk[k].sims
              /\ \E n \in 1..Len(received) : received[n] = k
        /\ totals = [wins |-> SumOf([k \in DOMAIN wk |-> wk[k].wins], workers),
                     ties |-> SumOf([k \in DOMAIN wk |-> wk[k].ties], workers),
                     sims |-> SumOf([k \in DOMAIN wk |-> wk[k].sims], workers)]

\* A returned run whose second worker reported first, both having run trials.
C7_Witness ==
    /\ mainPc = "done"
    /\ received = <<1, 0>>
    /\ wk[0].i >= 1 /\ wk[1].i >= 1

\* The run has returned: every worker has run its trials, sent and finished,
\* the channel is closed and drained, and the result is computed.
Returned ==
    /\ mainPc = "done"
    /\ closed
    /\ results = <<>>
    /\ odds # <<>>
    /\ totals.sims = simulations
    /\ \A k \in 0..(workers - 1) :
          k \in DOMAIN wk /\ wk[k].pc = "done" /\ wk[k].i = wk[k].sims

\* C8: under fair scheduling a run always completes all requested trials
\* and returns: every worker sends, the channel is closed, the aggregation
\* loop ends; also when there are more workers than trials.
C8_RunCompletes == <>Returned

\* A returned run with more workers than trials: a worker ran no trial.
C8_Witness ==
    /\ Returned
    /\ workers > simulations
    /\ \E k \in DOMAIN wk : wk[k].sims = 0

\* C9: the workers share no mutable state: no append onto holeCards writes
\* into the array the workers share, which stays as the caller passed it;
\* each worker shuffles a deck of its own, the deck without the known cards;
\* a worker's only interaction with the others is the one send of its result.
C9_NoSharedMutableState ==
    /\ sharedWrites = {}
    /\ \A n \in 1..Len(holeArr) :
          holeArr[n] = IF n <= holeCards.len THEN holeCards.cards[n] ELSE NilCard
    /\ \A k \in DOMAIN wk :
          /\ wk[k].pc # "start" => Len(wk[k].deck) = 52 - holeCards.len - Len(boardCards)
          /\ SendsOf(k) = IF wk[k].pc \in {"sent", "done"} THEN 1 ELSE 0

\* Two workers in their loops at once, each having appended onto holeCards
\* for a trial.
C9_Witness ==
    /\ sharedWrites = {}
    /\ \E j, k \in DOMAIN wk :
          /\ j # k
          /\ wk[j].pc = "loop" /\ wk[k].pc = "loop"
          /\ wk[j].i >= 1 /\ wk[k].i >= 1
          /\ wk[j].trial.playerCards # wk[k].trial.playerCards

\* C10: any two workers of a run obtain distinct seeds, also when they start
\* within the same clock tick.
C10_DistinctSeeds ==
    \A j, k \in DOMAIN wk :
        (j # k /\ wk[j].pc # "start" /\ wk[k].pc # "start") => wk[j].seed # wk[k].seed

(***************************************************************************)
(* EvaluateHand on partial hands, signature lengths, order independence    *)
(***************************************************************************)

\* The number of cards of cs with rank value v, and the values by count.
Multiplicity(cs, v) == Cardinality({i \in 1..Len(cs) : RankValue(cs[i]) = v})
ValuesTimes(cs, n) == {v \in 0..12 : Multiplicity(cs, v) = n}

\* The pattern of the rank multiset of at most 4 cards.
PatternOf(cs) ==
    IF ValuesTimes(cs, 4) # {} THEN FourOfAKind
    ELSE IF ValuesTimes(cs, 3) # {} THEN ThreeOfAKind
    ELSE IF Cardinality(ValuesTimes(cs, 2)) = 2 THEN TwoPair
    ELSE IF Cardinality(ValuesTimes(cs, 2)) = 1 THEN OnePair
    ELSE HighCard

\* C11: for 1 to 4 cards EvaluateHand evaluates the cards as given and
\* reads the rank-count list only within its range; flush and straight are
\* false, so the category is none of Royal Flush, Straight Flush, Flush,
\* Straight, Full House, and it is Four of a Kind, Three of a Kind, Two
\* Pair, One Pair or High Card exactly as the rank multiset has the pattern.
C11_PartialHandsByPattern ==
    (pc = "return" /\ Len(cards) \in 1..4) =>
        /\ result.Rank = PatternOf(cards)
        /\ result.Rank \notin {RoyalFlush, StraightFlush, Flush, Straight, FullHouse}
        /\ \A iter \in IterOrders :
              /\ result = evaluateFiveCardHand(cards, iter)
              /\ ~isFlush(SortCards(cards))
              /\ ~isStraight(SortCards(cards), iter)[1]
              /\ CountReads(cards, iter) \subseteq
                    0..(Cardinality({RankValue(cards[i]) : i \in 1..Len(cards)}) - 1)

\* Four suited cards in a row, returned as High Card.
C11_Witness ==
    /\ pc = "return"
    /\ Len(cards) = 4
    /\ \A i \in 1..4 : cards[i].Suit = "S"
    /\ {RankValue(cards[i]) : i \in 1..4} = {12, 11, 10, 9}
    /\ result.Rank = HighCard
    /\ result.Kickers = <<12, 11, 10, 9>>

(***************************************************************************)
(* runSimulations: the classification of a trial and the cards dealt       *)
(***************************************************************************)

\* The results of the opponents of a trial, each on its two cards and the
\* board.
OpponentResults(t) ==
    {EvaluateHand(t.opponentHands[j] \o t.fullBoard, 0) : j \in 1..Len(t.opponentHands)}

\* The counters of worker k move as win and tie say, and the comparison
\* counted is the one against a greatest of the opponents' results.
CountedAs(k, win, tie, comparison, againstGreatest) ==
    /\ againstGreatest # {}
    /\ againstGreatest = {comparison}
    /\ win <=> comparison > 0
    /\ tie <=> comparison = 0
    /\ wk'[k].wins = wk[k].wins + (IF win THEN 1 ELSE 0)
    /\ wk'[k].ties = wk[k].ties + (IF tie THEN 1 ELSE 0)
    /\ (wk'[k].wins - wk[k].wins) + (wk'[k].ties - wk[k].ties) \in {0, 1}

\* The step of worker k is a trial on 7 cards: a win iff the player's result
\* is strictly greater than every opponent's, a tie iff it is below none and
\* not a win, a loss otherwise.  The results are evaluated once and bound.
ClassifiedStep(k) ==
    /\ Len(wk'[k].trial.playerCards) = 7
    /\ \A player \in {EvaluateHand(wk'[k].trial.playerCards, 0)} :
         \A opps \in {OpponentResults(wk'[k].trial)} :
           \A win \in {\A o \in opps : Compare(player, o) > 0} :
             \A tie \in {~win /\ \A o \in opps : Compare(player, o) >= 0} :
               CountedAs(k, win, tie, wk'[k].trial.comparison,
                         {Compare(player, g) :
                            g \in {o \in opps : \A m \in opps : Compare(o, m) >= 0}})

\* C12: every trial is classified into exactly one of win, tie, loss: wins
\* is incremented iff the player's 7-card result is strictly greater than
\* the maximum over the opponents, ties iff it is equal to that maximum,
\* neither otherwise; ties among the opponents change nothing.
C12_TrialClassified ==
    [][\A k \in DOMAIN wk : wk'[k].i = wk[k].i + 1 => ClassifiedStep(k)]_vars

\* A worker that has counted a win, a tie and a loss in three trials.
C12_Witness ==
    /\ 0 \in DOMAIN wk
    /\ wk[0].i = 3
    /\ wk[0].wins = 1 /\ wk[0].ties = 1
    /\ wk[0].trial.comparison < 0

(***************************************************************************)
(* C13: kicker signatures of one category                                  *)
(***************************************************************************)

\* The results of EvaluateHand on 1 to 7 cards, and on 5 to 7 cards.
HandResults == {e.val : e \in HandTable}
FullHandResults == {e.val : e \in {f \in HandTable : Len(f.hand) >= 5}}

\* The length of the signature of each category, High Card to Royal Flush,
\* when it is built from 5 cards.
SignatureLength == <<5, 4, 3, 3, 1, 5, 2, 2, 1, 0>>

\* C13 (as stated): a result of EvaluateHand on 1 to 7 cards has a kicker
\* signature as long as that of every other such result of its category.
C13_EqualLengthsPerCategory ==
    pc = "return" =>
        \A r \in HandResults :
            r.Rank = result.Rank => Len(r.Kickers) = Len(result.Kickers)

\* C13 (as amended): a result of EvaluateHand on 5 to 7 cards has the kicker
\* signature length of its category, equal to that of every other such
\* result of the category, so that Compare reports equal against one of them
\* only when the two signatures are the same.
C13_EqualLengthsOnFullHands ==
    pc = "return" /\ Len(cards) >= 5 =>
        /\ Len(result.Kickers) = SignatureLength[result.Rank]
        /\ \A r \in FullHandResults :
              r.Rank = result.Rank =>
                /\ Len(r.Kickers) = Len(result.Kickers)
                /\ Compare(result, r) = 0 => r.Kickers = result.Kickers

\* Three of a kind out of 6 cards: the signature has the 3 entries of a
\* 5-card hand's, and another result of the category is at hand.
C13_Witness ==
    /\ pc = "return" /\ Len(cards) = 6
    /\ result.Rank = ThreeOfAKind
    /\ Len(result.Kickers) = 3
    /\ \E r \in FullHandResults : r.Rank = ThreeOfAKind /\ r # result

(***************************************************************************)
(* C14: the result depends on the set of cards only                        *)
(***************************************************************************)

\* A rank-count list ordered by count descending, then value descending.
CountsSorted(l) ==
    \A i, j \in 1..Len(l) :
        i < j => \/ l[i].count > l[j].count
                 \/ l[i].count = l[j].count /\ l[i].value > l[j].value

\* The hands EvaluateHand passes to evaluateFiveCardHand.
EvaluatedHands(cs) ==
    IF Len(cs) < 5 THEN {cs}
    ELSE {generateCombinations(cs, 5)[i] : i \in 1..Len(generateCombinations(cs, 5))}

\* The cards of a hand in deck order, and the tabulated result of the hand
\* supplied in that order.
InDeckOrder(cs) == SelectSeq(HandDeck, LAMBDA c : c \in CardSet(cs))
TableResult(cs) == (CHOOSE e \in HandTable : e.hand = InDeckOrder(cs)).val

\* C14: whatever order the rank-count map is iterated in, the rank-count
\* list of every hand evaluated is sorted by count descending then rank
\* value descending before the kickers are built; and the result of
\* EvaluateHand is the one of the same set of cards supplied in deck order,
\* whatever the order of the input and of the map iteration.
C14_ResultDependsOnCardSet ==
    pc = "return" =>
        /\ result = TableResult(cards)
        /\ \A iter \in IterOrders :
             \A h \in EvaluatedHands(cards) :
                CountsSorted(SortCounts(CountsList(SortCards(h), iter)))

\* A hand of 5 cards supplied out of deck order whose rank-count list comes
\* out of the map unsorted under some iteration order.
C14_Witness ==
    /\ pc = "return" /\ Len(cards) = 5
    /\ cards # InDeckOrder(cards)
    /\ \E iter \in IterOrders : ~CountsSorted(CountsList(SortCards(cards), iter))
    /\ result = TableResult(cards)

(***************************************************************************)
(* C15: the deck of a worker and the cards it deals                        *)
(***************************************************************************)

\* The working deck as a set: the 52 cards less the known ones.
WorkingCards ==
    {[Rank |-> r, Suit |-> u] :
        r \in {RankOrder[i] : i \in 1..Len(RankOrder)},
        u \in {AllSuits[i] : i \in 1..Len(AllSuits)}}
      \ (CardSet(holeCards.cards) \cup CardSet(boardCards))

\* A sequence that lists every element of S once.
PermutationOf(s, S) == Len(s) = Cardinality(S) /\ CardSet(s) = S

\* The cards of a trial: the player's seven, then each opponent's two.
RECURSIVE Flatten(_)
Flatten(ss) == IF ss = <<>> THEN <<>> ELSE Head(ss) \o Flatten(Tail(ss))
TrialCards(t) == t.playerCards \o Flatten(t.opponentHands)

\* The deck of worker k, once built, is a permutation of the working deck.
DeckIsPermutation(k) ==
    /\ Len(wk[k].deck) = 52 - 2 - Len(boardCards)
    /\ PermutationOf(wk[k].deck, WorkingCards)

\* The cards of worker k's last trial come from in-range, pairwise different
\* positions of its deck and are pairwise distinct, the known cards included.
DealtDistinct(k) ==
    LET t == wk[k].trial
        missingCards == 5 - Len(boardCards)
        dealt == SubSeq(TrialCards(t), 2 + Len(boardCards) + 1, Len(TrialCards(t)))
    IN  /\ missingCards + 2 * numOpponents <= Len(wk[k].deck)
        /\ Len(t.fullBoard) = 5
        /\ t.playerCards = holeCards.cards \o t.fullBoard
        /\ Len(t.opponentHands) = numOpponents
        /\ Len(dealt) = missingCards + 2 * numOpponents
        /\ dealt = SubSeq(wk[k].deck, 1, Len(dealt))
        /\ Cardinality(CardSet(TrialCards(t))) = 7 + 2 * numOpponents

\* C15: in every trial of every worker the deck is a permutation of the
\* working deck (the 52 cards less the known hole and board cards); the
\* 5 - len(board) board cards and 2 cards per opponent, for 1 to 9
\* opponents, come from in-range, pairwise different positions of it; and
\* the completed board, the player's hole cards and the opponents' hole
\* cards are pairwise distinct.
C15_DealsDistinctCards ==
    /\ \A b \in 0..5 : \A o \in 1..9 : (5 - b) + 2 * o <= 52 - 2 - b
    /\ \A k \in DOMAIN wk :
          /\ wk[k].pc # "start" => DeckIsPermutation(k)
          /\ wk[k].i > 0 => DealtDistinct(k)

\* A worker in its second trial against nine opponents before the flop: 23
\* cards have been dealt from a deck shuffled twice.
C15_Witness ==
    /\ 0 \in DOMAIN wk
    /\ wk[0].i = 2
    /\ numOpponents = 9 /\ boardCards = <<>>
    /\ Len(TrialCards(wk[0].trial)) = 25
    /\ wk[0].deck # RemoveCards(NewDeck, holeCards.cards)

====
